---- MODULE Spec2Model ----
(***************************************************************************)
(* Model of the pgsql Repos store (server/internal/store/pgsql/repos.go):  *)
(* the repo table, the dbRepo <-> sourcegraph.Repo mapping, the query      *)
(* that listSQL builds, and the Get, List, Create, Update and Delete       *)
(* operations.                                                             *)
(*                                                                         *)
(* Go strings are TLA+ strings, taken apart character by character with    *)
(* Head, Tail, SubSeq and \o.  A Go pointer (to a time.Time or to a        *)
(* pbtypes.Timestamp) is a sequence of length at most one: <<>> is nil.    *)
(* A time.Time is its number of nanoseconds since the epoch; the zero      *)
(* time.Time is 0.                                                         *)
(***************************************************************************)
EXTENDS Integers, Sequences, FiniteSets, TLC

(***************************************************************************)
(* Bounds of the model.                                                    *)
(***************************************************************************)
\* the largest number of rows the repo table holds
MaxRepos == 2
\* the largest number of List option fields that differ from their zero value
MaxSetOptions == 2
\* the largest number of callers inside Update at the same time
MaxCallers == 2

(***************************************************************************)
(* The string functions of the Go standard library that the store uses.    *)
(***************************************************************************)
Ascii == "\t %,-./0123456789:@ABCDEFGHIJKLMNOPQRSTUVWXYZ_abcdefghijklmnopqrstuvwxyz"
UpperCase == "ABCDEFGHIJKLMNOPQRSTUVWXYZ"
LowerCase == "abcdefghijklmnopqrstuvwxyz"

Char(s, i) == SubSeq(s, i, i)

\* the characters of the strings of the model
Chars == {Char(Ascii, i) : i \in 1..Len(Ascii)}

\* unicode.ToLower, as a table
LowerOf ==
    [c \in Chars |->
        IF \E i \in 1..Len(UpperCase) : Char(UpperCase, i) = c
        THEN Char(LowerCase, CHOOSE i \in 1..Len(UpperCase) : Char(UpperCase, i) = c)
        ELSE c]

\* the byte value of a character, as its place in Ascii
RankOf == [c \in Chars |-> CHOOSE i \in 1..Len(Ascii) : Char(Ascii, i) = c]

RECURSIVE ToLower(_)
ToLower(s) == IF s = "" THEN "" ELSE LowerOf[Head(s)] \o ToLower(Tail(s))

IsSpace(c) == c \in {" ", "\t"}

RECURSIVE FieldsFrom(_, _)
FieldsFrom(s, cur) ==
    IF s = "" THEN (IF cur = "" THEN <<>> ELSE <<cur>>)
    ELSE IF IsSpace(Head(s))
         THEN (IF cur = "" THEN <<>> ELSE <<cur>>) \o FieldsFrom(Tail(s), "")
         ELSE FieldsFrom(Tail(s), cur \o Head(s))

\* strings.Fields: the maximal runs of non-space characters
Fields(s) == FieldsFrom(s, "")

RECURSIVE Join(_, _)
\* strings.Join
Join(elems, sep) ==
    IF elems = <<>> THEN ""
    ELSE IF Len(elems) = 1 THEN elems[1]
    ELSE elems[1] \o sep \o Join(Tail(elems), sep)

\* strings.Contains for a one-character substring
Contains(s, c) == \E i \in 1..Len(s) : Char(s, i) = c

RECURSIVE SplitFrom(_, _, _)
SplitFrom(s, c, cur) ==
    IF s = "" THEN <<cur>>
    ELSE IF Head(s) = c THEN <<cur>> \o SplitFrom(Tail(s), c, "")
    ELSE SplitFrom(Tail(s), c, cur \o Head(s))

\* strings.Split for a one-character separator
Split(s, c) == SplitFrom(s, c, "")

RECURSIVE TrimLeft(_)
TrimLeft(s) == IF s /= "" /\ IsSpace(Head(s)) THEN TrimLeft(Tail(s)) ELSE s

RECURSIVE TrimRight(_)
TrimRight(s) ==
    IF s /= "" /\ IsSpace(Char(s, Len(s)))
    THEN TrimRight(SubSeq(s, 1, Len(s) - 1))
    ELSE s

\* strings.TrimSpace
TrimSpace(s) == TrimRight(TrimLeft(s))

RECURSIVE StripSlashes(_)
StripSlashes(s) ==
    IF s /= "" /\ Char(s, Len(s)) = "/"
    THEN StripSlashes(SubSeq(s, 1, Len(s) - 1))
    ELSE s

RECURSIVE AfterLastSlash(_)
AfterLastSlash(s) ==
    IF Contains(s, "/") THEN AfterLastSlash(Tail(s)) ELSE s

\* path.Base
Base(p) ==
    IF p = "" THEN "."
    ELSE LET last == AfterLastSlash(StripSlashes(p))
         IN  IF last = "" THEN "/" ELSE last

RECURSIVE StrLess(_, _)
\* a < b in the byte order of the two strings
StrLess(a, b) ==
    IF b = "" THEN FALSE
    ELSE IF a = "" THEN TRUE
    ELSE IF Head(a) = Head(b) THEN StrLess(Tail(a), Tail(b))
    ELSE RankOf[Head(a)] < RankOf[Head(b)]

(***************************************************************************)
(* The operators of the database that the statements of the store use.     *)
(***************************************************************************)
RECURSIVE Like(_, _)
\* s LIKE p: % matches any run of characters, _ any one character
Like(s, p) ==
    IF p = "" THEN s = ""
    ELSE IF Head(p) = "%"
         THEN Like(s, Tail(p)) \/ (s /= "" /\ Like(Tail(s), p))
    ELSE IF s = "" THEN FALSE
    ELSE (Head(p) = "_" \/ Head(p) = Head(s)) /\ Like(Tail(s), Tail(p))

\* equality on the citext column uri
CitextEq(a, b) == ToLower(a) = ToLower(b)

(***************************************************************************)
(* pbtypes.Timestamp <-> time.Time.                                        *)
(***************************************************************************)
NanosPerSecond == 1000000000

\* pbtypes.NewTimestamp(t)
NewTimestamp(t) == [Seconds |-> t \div NanosPerSecond, Nanos |-> t % NanosPerSecond]

\* (pbtypes.Timestamp).Time()
TimeOf(ts) == ts.Seconds * NanosPerSecond + ts.Nanos

(***************************************************************************)
(* dbRepo and the mapping between dbRepo and sourcegraph.Repo.             *)
(***************************************************************************)
\* the zero value of dbRepo ("var r dbRepo")
dbRepo ==
    [URI |-> "", Origin |-> "", Name |-> "", Description |-> "", VCS |-> "",
     HTTPCloneURL |-> "", SSHCloneURL |-> "", HomepageURL |-> "",
     DefaultBranch |-> "", Language |-> "",
     Blocked |-> FALSE, Deprecated |-> FALSE, Fork |-> FALSE,
     Mirror |-> FALSE, Private |-> FALSE,
     CreatedAt |-> 0, UpdatedAt |-> <<>>, PushedAt |-> <<>>]

toRepo(r) ==
    [URI |-> r.URI, Origin |-> r.Origin, Name |-> r.Name,
     Description |-> r.Description, VCS |-> r.VCS,
     HTTPCloneURL |-> r.HTTPCloneURL, SSHCloneURL |-> r.SSHCloneURL,
     HomepageURL |-> r.HomepageURL, DefaultBranch |-> r.DefaultBranch,
     Language |-> r.Language,
     Blocked |-> r.Blocked, Deprecated |-> r.Deprecated, Fork |-> r.Fork,
     Mirror |-> r.Mirror, Private |-> r.Private,
     CreatedAt |-> <<NewTimestamp(r.CreatedAt)>>,
     UpdatedAt |-> IF r.UpdatedAt /= <<>>
                   THEN <<NewTimestamp(r.UpdatedAt[1])>> ELSE <<>>,
     PushedAt  |-> IF r.PushedAt /= <<>>
                   THEN <<NewTimestamp(r.PushedAt[1])>> ELSE <<>>]

\* fromRepo without the copy of PushedAt
fromRepoNoPushedAt(r, r2) ==
    [r EXCEPT
       !.URI = r2.URI, !.Origin = r2.Origin, !.Name = r2.Name,
       !.Description = r2.Description, !.VCS = r2.VCS,
       !.HTTPCloneURL = r2.HTTPCloneURL, !.SSHCloneURL = r2.SSHCloneURL,
       !.HomepageURL = r2.HomepageURL, !.DefaultBranch = r2.DefaultBranch,
       !.Language = r2.Language,
       !.Blocked = r2.Blocked, !.Deprecated = r2.Deprecated, !.Fork = r2.Fork,
       !.Mirror = r2.Mirror, !.Private = r2.Private,
       !.CreatedAt = IF r2.CreatedAt /= <<>> THEN TimeOf(r2.CreatedAt[1]) ELSE @,
       !.UpdatedAt = IF r2.UpdatedAt /= <<>> THEN <<TimeOf(r2.UpdatedAt[1])>> ELSE @]

fromRepo(r, r2) ==
    [r EXCEPT
       !.URI = r2.URI, !.Origin = r2.Origin, !.Name = r2.Name,
       !.Description = r2.Description, !.VCS = r2.VCS,
       !.HTTPCloneURL = r2.HTTPCloneURL, !.SSHCloneURL = r2.SSHCloneURL,
       !.HomepageURL = r2.HomepageURL, !.DefaultBranch = r2.DefaultBranch,
       !.Language = r2.Language,
       !.Blocked = r2.Blocked, !.Deprecated = r2.Deprecated, !.Fork = r2.Fork,
       !.Mirror = r2.Mirror, !.Private = r2.Private,
       !.CreatedAt = IF r2.CreatedAt /= <<>> THEN TimeOf(r2.CreatedAt[1]) ELSE @,
       !.UpdatedAt = IF r2.UpdatedAt /= <<>> THEN <<TimeOf(r2.UpdatedAt[1])>> ELSE @,
       !.PushedAt  = IF r2.PushedAt /= <<>> THEN <<TimeOf(r2.PushedAt[1])>> ELSE @]

\* toRepos, on the sequence of rows a query returned
toRepos(rs) == [i \in 1..Len(rs) |-> toRepo(rs[i])]

(***************************************************************************)
(* The errors the store returns; "" is nil.                                *)
(***************************************************************************)
ErrRepoMirrorOnly == "MirrorOnly"
ErrRepoNeedsCloneURL == "NeedsCloneURL"
RepoNotFoundError == "NotFound"
InvalidArgument == "InvalidArgument"
errOptionsSpecifyEmptyResult == "pgsql: options specify and empty result set"
\* an error of the database handle, returned as it is
ExecutionFailure == "ExecutionFailure"

(***************************************************************************)
(* The statement listSQL builds.  A condition is a sequence of tokens; a   *)
(* bind variable $k is the index k of its value in args (BindVar(len(args))*)
(* is "$" followed by len(args)+1).                                        *)
(***************************************************************************)
Tok(t, a, n) == [t |-> t, a |-> a, n |-> n]
LParen == Tok("(", 0, 0)
RParen == Tok(")", 0, 0)
AND == Tok("AND", 0, 0)
OR == Tok("OR", 0, 0)

RECURSIVE JoinToks(_, _)
\* strings.Join on conditions: the conditions with sep between them
JoinToks(conds, sep) ==
    IF conds = <<>> THEN <<>>
    ELSE IF Len(conds) = 1 THEN conds[1]
    ELSE conds[1] \o sep \o JoinToks(Tail(conds), sep)

\* whereSQL without the parentheses around each condition
whereSQLFlat(conds) == JoinToks(conds, <<AND>>)

\* "(" + strings.Join(conds, ") AND (") + ")"
whereSQL(conds) == <<LParen>> \o JoinToks(conds, <<RParen, AND, LParen>>) \o <<RParen>>

\* sortKeyToCol with a column for every key
sortKeyToColAny(sort) ==
    CASE sort = "name" -> "repo.name"
      [] sort = "created" -> "repo.created_at"
      [] sort = "updated" -> "repo.updated_at"
      [] sort = "pushed" -> "repo.pushed_at"
      [] OTHER -> "repo.uri"

\* sortKeyToCol; "" is the key of no column
sortKeyToCol(sort) ==
    CASE sort = "uri" -> "repo.uri"
      [] sort = "path" -> "repo.uri"
      [] sort = "name" -> "repo.name"
      [] sort = "created" -> "repo.created_at"
      [] sort = "updated" -> "repo.updated_at"
      [] sort = "pushed" -> "repo.pushed_at"
      [] OTHER -> ""

\* opt.URIs without the workaround
splitURIsNever(URIs) == URIs

\* the URIs that the workaround leaves in opt.URIs
splitURIs(URIs) ==
    IF Len(URIs) = 1 /\ Contains(URIs[1], ",") THEN Split(URIs[1], ",") ELSE URIs

\* ORDER BY without the tie-break on the name
orderBySQLNoTieBreak(uriQuery, a, sortCol, direction) ==
    <<[expr |-> sortCol, a |-> 0, dir |-> direction]>>

\* orderBySQL: the tie-break on the name when there is a query, bound to $a,
\* then the sort column
orderBySQL(uriQuery, a, sortCol, direction) ==
    (IF uriQuery /= ""
     THEN <<[expr |-> "lower(name) =", a |-> a, dir |-> "DESC"]>> ELSE <<>>)
    \o <<[expr |-> sortCol, a |-> 0, dir |-> direction]>>

\* listSQL(opt): the statement, its arguments, the error, and opt as the
\* call leaves it
listSQL(opt) ==
    LET queryTerms == Fields(opt.Query)
        uriQuery == ToLower(Join(queryTerms, "/"))
        c0 == << <<LParen, Tok("NOT blocked", 0, 0), RParen>> >>
        c1 == IF opt.NoFork
              THEN Append(c0, <<LParen, Tok("NOT fork", 0, 0), RParen>>) ELSE c0
        URIs == IF Len(opt.URIs) > 0 THEN splitURIs(opt.URIs) ELSE opt.URIs
        opt2 == [opt EXCEPT !.URIs = URIs]
        a2 == URIs
        c2 == IF Len(opt.URIs) > 0
              THEN Append(c1, <<Tok("uri IN", 1, Len(URIs))>>) ELSE c1
        a3 == IF opt.Name /= "" THEN Append(a2, ToLower(opt.Name)) ELSE a2
        c3 == IF opt.Name /= ""
              THEN Append(c2, <<Tok("lower(name)=", Len(a3), 1)>>) ELSE c2
        q  == ToLower(uriQuery)
        a4 == IF Len(queryTerms) >= 1
              THEN a3 \o <<"/" \o q \o "%", q \o "%/%", q \o "%", q>> ELSE a3
        c4 == IF Len(queryTerms) >= 1
              THEN Append(c3, <<Tok("lower(uri) LIKE", Len(a3) + 1, 1), OR,
                                Tok("lower(uri) LIKE", Len(a3) + 2, 1), OR,
                                Tok("lower(name) LIKE", Len(a3) + 3, 1), OR,
                                Tok("lower(uri) =", Len(a3) + 4, 1)>>)
              ELSE c3
        typeOK == opt.Type \in {"private", "public", "", "all"}
        c5 == CASE opt.Type = "private" -> Append(c4, <<Tok("private", 0, 0)>>)
                [] opt.Type = "public" -> Append(c4, <<Tok("NOT private", 0, 0)>>)
                [] OTHER -> c4
        a5 == IF uriQuery /= "" THEN Append(a4, ToLower(Base(q))) ELSE a4
        sort == IF opt.Sort = "" THEN "uri" ELSE opt.Sort
        direction == IF opt.Direction = "" THEN "asc" ELSE opt.Direction
        failed(e) == [where |-> <<>>, orderBy |-> <<>>, args |-> <<>>, err |-> e,
                      opt |-> opt2]
    IN  IF ~typeOK THEN failed(InvalidArgument)
        ELSE IF opt.Owner /= "" THEN failed(errOptionsSpecifyEmptyResult)
        ELSE IF sortKeyToCol(sort) = "" THEN failed(InvalidArgument)
        ELSE IF direction /= "asc" /\ direction /= "desc" THEN failed(InvalidArgument)
        ELSE [where |-> whereSQL(c5),
              orderBy |-> orderBySQL(uriQuery, Len(a5), sortKeyToCol(sort), direction),
              args |-> a5, err |-> "", opt |-> opt2]

(***************************************************************************)
(* What the database makes of the statement: the WHERE expression with AND *)
(* binding tighter than OR, ORDER BY with NULLS LAST, LIMIT and OFFSET.    *)
(***************************************************************************)
RECURSIVE TopLevelFrom(_, _, _, _)
\* the positions, from i on, of the operator op outside every parenthesis;
\* depth parentheses are open before token i
TopLevelFrom(toks, i, depth, op) ==
    IF i > Len(toks) THEN {}
    ELSE IF toks[i] = LParen THEN TopLevelFrom(toks, i + 1, depth + 1, op)
    ELSE IF toks[i] = RParen THEN TopLevelFrom(toks, i + 1, depth - 1, op)
    ELSE (IF depth = 0 /\ toks[i] = op THEN {i} ELSE {})
         \cup TopLevelFrom(toks, i + 1, depth, op)

\* the positions of the operator op outside every parenthesis
TopLevel(toks, op) == TopLevelFrom(toks, 1, 0, op)

Min(S) == CHOOSE x \in S : \A y \in S : x <= y

\* one predicate of the statement on one row
EvalAtom(tok, row, args) ==
    CASE tok.t = "NOT blocked" -> ~row.Blocked
      [] tok.t = "NOT fork" -> ~row.Fork
      [] tok.t = "private" -> row.Private
      [] tok.t = "NOT private" -> ~row.Private
      [] tok.t = "uri IN" ->
            \E k \in tok.a..(tok.a + tok.n - 1) : CitextEq(row.URI, args[k])
      [] tok.t = "lower(name)=" -> ToLower(row.Name) = args[tok.a]
      [] tok.t = "lower(uri) LIKE" -> Like(ToLower(row.URI), args[tok.a])
      [] tok.t = "lower(name) LIKE" -> Like(ToLower(row.Name), args[tok.a])
      [] tok.t = "lower(uri) =" -> ToLower(row.URI) = args[tok.a]

RECURSIVE EvalWhere(_, _, _)
EvalWhere(toks, row, args) ==
    LET ors == TopLevel(toks, OR)
        ands == TopLevel(toks, AND)
    IN  IF ors /= {}
        THEN EvalWhere(SubSeq(toks, 1, Min(ors) - 1), row, args)
             \/ EvalWhere(SubSeq(toks, Min(ors) + 1, Len(toks)), row, args)
        ELSE IF ands /= {}
        THEN EvalWhere(SubSeq(toks, 1, Min(ands) - 1), row, args)
             /\ EvalWhere(SubSeq(toks, Min(ands) + 1, Len(toks)), row, args)
        ELSE IF toks[1] = LParen
        THEN EvalWhere(SubSeq(toks, 2, Len(toks) - 1), row, args)
        ELSE EvalAtom(toks[1], row, args)

\* -1, 0, 1: x sorts before, with, after y under "dir NULLS LAST", given
\* which of the two is NULL and whether x < y and y < x
CmpNullsLast(xNull, yNull, lt, gt, dir) ==
    IF xNull /\ yNull THEN 0
    ELSE IF xNull THEN 1
    ELSE IF yNull THEN -1
    ELSE IF lt THEN (IF dir = "asc" THEN -1 ELSE 1)
    ELSE IF gt THEN (IF dir = "asc" THEN 1 ELSE -1)
    ELSE 0

\* x < y on a nullable timestamp column; a NULL is an empty sequence
TimeLess(x, y) == x /= <<>> /\ y /= <<>> /\ x[1] < y[1]

\* x < y on the citext column uri
CitextLess(x, y) == StrLess(ToLower(x), ToLower(y))

\* one ORDER BY term on two rows
CmpTerm(term, r1, r2, args) ==
    CASE term.expr = "lower(name) =" ->
            LET b1 == ToLower(r1.Name) = args[term.a]
                b2 == ToLower(r2.Name) = args[term.a]
            IN  IF b1 = b2 THEN 0 ELSE IF b1 THEN -1 ELSE 1
      [] term.expr = "repo.uri" ->
            CmpNullsLast(FALSE, FALSE, CitextLess(r1.URI, r2.URI),
                         CitextLess(r2.URI, r1.URI), term.dir)
      [] term.expr = "repo.name" ->
            CmpNullsLast(FALSE, FALSE, StrLess(r1.Name, r2.Name),
                         StrLess(r2.Name, r1.Name), term.dir)
      [] term.expr = "repo.created_at" ->
            CmpNullsLast(FALSE, FALSE, r1.CreatedAt < r2.CreatedAt,
                         r2.CreatedAt < r1.CreatedAt, term.dir)
      [] term.expr = "repo.updated_at" ->
            CmpNullsLast(r1.UpdatedAt = <<>>, r2.UpdatedAt = <<>>,
                         TimeLess(r1.UpdatedAt, r2.UpdatedAt),
                         TimeLess(r2.UpdatedAt, r1.UpdatedAt), term.dir)
      [] term.expr = "repo.pushed_at" ->
            CmpNullsLast(r1.PushedAt = <<>>, r2.PushedAt = <<>>,
                         TimeLess(r1.PushedAt, r2.PushedAt),
                         TimeLess(r2.PushedAt, r1.PushedAt), term.dir)

RECURSIVE CmpRows(_, _, _, _)
\* the ORDER BY terms in turn: the first that tells the rows apart decides
CmpRows(orderBy, r1, r2, args) ==
    IF orderBy = <<>> THEN 0
    ELSE LET c == CmpTerm(orderBy[1], r1, r2, args)
         IN  IF c /= 0 THEN c ELSE CmpRows(Tail(orderBy), r1, r2, args)

\* the orders in which the database may return the rows: rows that ORDER BY
\* does not tell apart come in any order
Ordered(rows, orderBy, args) ==
    LET n == Cardinality(rows)
    IN  {s \in [1..n -> rows] :
            /\ \A i, j \in 1..n : i /= j => s[i] /= s[j]
            /\ \A i, j \in 1..n : i < j => CmpRows(orderBy, s[i], s[j], args) <= 0}

\* SELECT repo.* FROM repo WHERE where ORDER BY orderBy LIMIT limit OFFSET offset
Select(table, where, orderBy, args, limit, offset) ==
    LET rows == {r \in table : EvalWhere(where, r, args)}
        lo == offset + 1
        hi == IF offset + limit < Cardinality(rows)
              THEN offset + limit ELSE Cardinality(rows)
    IN  {SubSeq(s, lo, hi) : s \in Ordered(rows, orderBy, args)}

(***************************************************************************)
(* sourcegraph.ListOptions, embedded in RepoListOptions.                   *)
(***************************************************************************)
DefaultPerPage == 10

PerPageOrDefault(opt) == IF opt.PerPage <= 0 THEN DefaultPerPage ELSE opt.PerPage

PageOrDefault(opt) == IF opt.Page <= 0 THEN 1 ELSE opt.Page

Offset(opt) == (PageOrDefault(opt) - 1) * PerPageOrDefault(opt)

(***************************************************************************)
(* The values the operations are called with.                              *)
(***************************************************************************)
\* the zero value of sourcegraph.Repo
Repo ==
    [URI |-> "", Origin |-> "", Name |-> "", Description |-> "", VCS |-> "",
     HTTPCloneURL |-> "", SSHCloneURL |-> "", HomepageURL |-> "",
     DefaultBranch |-> "", Language |-> "",
     Blocked |-> FALSE, Deprecated |-> FALSE, Fork |-> FALSE,
     Mirror |-> FALSE, Private |-> FALSE,
     CreatedAt |-> <<>>, UpdatedAt |-> <<>>, PushedAt |-> <<>>]

RepoWidgets ==
    [Repo EXCEPT !.URI = "acme/widgets", !.Name = "widgets", !.Mirror = TRUE,
                 !.SSHCloneURL = "git@acme/widgets"]

RepoWidgetsExtra ==
    [Repo EXCEPT !.URI = "acme/widgets-extra", !.Name = "widgets-extra",
                 !.Mirror = TRUE, !.Fork = TRUE, !.Deprecated = TRUE,
                 !.Origin = "github.com", !.VCS = "git",
                 !.HTTPCloneURL = "https://acme/widgets-extra",
                 !.HomepageURL = "https://acme", !.DefaultBranch = "develop",
                 !.Description = "Extra widgets", !.Language = "Go",
                 !.CreatedAt = <<[Seconds |-> 1, Nanos |-> 5]>>,
                 !.UpdatedAt = <<[Seconds |-> 1, Nanos |-> 7]>>]

RepoFooBar ==
    [Repo EXCEPT !.URI = "example.com/foo/bar", !.Name = "bar", !.Mirror = TRUE,
                 !.Private = TRUE, !.SSHCloneURL = "git@example.com/foo/bar",
                 !.CreatedAt = <<[Seconds |-> 0, Nanos |-> 3]>>]

RepoFoobar ==
    [Repo EXCEPT !.URI = "example.com/foobar", !.Name = "foobar", !.Mirror = TRUE,
                 !.HTTPCloneURL = "https://example.com/foobar",
                 !.PushedAt = <<[Seconds |-> 1, Nanos |-> 0]>>]

RepoBlocked ==
    [Repo EXCEPT !.URI = "Foo/Bar", !.Name = "Bar", !.Mirror = TRUE,
                 !.Blocked = TRUE, !.Private = TRUE,
                 !.SSHCloneURL = "git@foo/bar",
                 !.UpdatedAt = <<[Seconds |-> 0, Nanos |-> 1]>>]

RepoNotMirror ==
    [Repo EXCEPT !.URI = "acme/local", !.Name = "local",
                 !.SSHCloneURL = "git@acme/local"]

RepoNotMirrorNoURL == [Repo EXCEPT !.URI = "acme/bare", !.Name = "bare"]

RepoNoCloneURL ==
    [Repo EXCEPT !.URI = "acme/nourl", !.Name = "nourl", !.Mirror = TRUE]

\* the records Create is called with
NewRepos ==
    {RepoWidgets, RepoWidgetsExtra, RepoFooBar, RepoFoobar, RepoBlocked,
     RepoNotMirror, RepoNotMirrorNoURL, RepoNoCloneURL}

\* the identifiers Get and Delete are called with
RepoURIs == {"ACME/Widgets-Extra", "example.com/foobar", "acme/none"}

\* the updates Update is called with
RepoUpdates ==
    [Repo : {[URI |-> "ACME/WIDGETS-EXTRA"]},
     Description : {"", "  New widgets\t", " "},
     Language : {"", " Rust"},
     UpdatedAt : {<<>>, <<2000000000>>},
     PushedAt : {<<>>, <<1500000000>>}]

\* the zero value of sourcegraph.RepoListOptions
RepoListOptions ==
    [Query |-> "", URIs |-> <<>>, Name |-> "", Type |-> "", NoFork |-> FALSE,
     Owner |-> "", Sort |-> "", Direction |-> "", PerPage |-> 0, Page |-> 0]

AllListOptions ==
    [Query : {"", "foo bar", "widgets", "Bar"},
     URIs : {<<>>, <<"acme/widgets,example.com/foobar">>,
             <<"foo/bar", "ACME/Widgets-Extra">>},
     Name : {"", "BAR"},
     Type : {"", "all", "private", "public", "internal"},
     NoFork : BOOLEAN,
     Owner : {"", "alice"},
     Sort : {"", "uri", "path", "name", "created", "updated", "pushed", "stars"},
     Direction : {"", "asc", "desc", "ASC"},
     PerPage : {0, 1},
     Page : {0, 2}]

\* the number of fields of opt that are not at their zero value
SetOptions(opt) ==
    Cardinality({f \in DOMAIN opt : opt[f] /= RepoListOptions[f]})

\* the options List is called with
ListOptions == {opt \in AllListOptions : SetOptions(opt) <= MaxSetOptions}

\* the options List is called with between the other operations
BasicListOptions ==
    {RepoListOptions,
     [RepoListOptions EXCEPT !.Query = "widgets"],
     [RepoListOptions EXCEPT !.Query = "foo bar", !.Sort = "updated"],
     [RepoListOptions EXCEPT !.Sort = "pushed", !.Direction = "desc"],
     [RepoListOptions EXCEPT !.URIs = <<"acme/widgets,example.com/foobar">>],
     [RepoListOptions EXCEPT !.Owner = "alice", !.Type = "internal"],
     [RepoListOptions EXCEPT !.Sort = "stars"]}

(***************************************************************************)
(* The state: the repo table, and the call in progress as its caller sees  *)
(* it.  The store itself keeps nothing between calls.                      *)
(***************************************************************************)
VARIABLES
    repo,      \* the rows of table repo
    op,        \* the operation that has just run, "" between calls
    arg0,      \* its argument as the caller passed it
    arg,       \* its argument as the call left it
    res,       \* the value it returned; <<>> is nil
    err,       \* the error it returned; "" is nil
    sqlArgs,   \* the values bound to the statement List executed
    created,   \* the records Create accepted, each until an Update or
               \* Delete is called with its identifier
    calls      \* the calls of Update that run statement by statement, one
               \* for each concurrent caller

vars == <<repo, op, arg0, arg, res, err, sqlArgs, created, calls>>

\* the goroutines that call Update concurrently
Callers == 1..MaxCallers

\* a caller that is not inside Update
NoCall == [pc |-> "idle", u |-> <<>>, issued |-> <<>>, err |-> ""]

Init ==
    /\ repo = {}
    /\ op = ""
    /\ arg0 = <<>>
    /\ arg = <<>>
    /\ res = <<>>
    /\ err = ""
    /\ sqlArgs = <<>>
    /\ created = {}
    /\ calls = [c \in Callers |-> NoCall]

\* List returning every error of listSQL
listErrAll(e) == e

\* the error List returns for the error of listSQL
listErr(e) == IF e = errOptionsSpecifyEmptyResult THEN "" ELSE e

\* SELECT * FROM repo WHERE (uri=$1)
getBySQL(table, uri) == {r \in table : CitextEq(r.URI, uri)}

Get(uri, dbOK) ==
    /\ op = ""
    /\ op' = "Get"
    /\ arg0' = uri
    /\ arg' = uri
    /\ sqlArgs' = <<>>
    /\ IF ~dbOK THEN res' = <<>> /\ err' = ExecutionFailure
       ELSE IF getBySQL(repo, uri) = {} THEN res' = <<>> /\ err' = RepoNotFoundError
       ELSE \E r \in getBySQL(repo, uri) : res' = <<toRepo(r)>> /\ err' = ""
    /\ UNCHANGED <<repo, created, calls>>

\* the checks of Create with the clone URLs checked first
createErrURLFirst(newRepo) ==
    IF newRepo.HTTPCloneURL = "" /\ newRepo.SSHCloneURL = "" THEN ErrRepoNeedsCloneURL
    ELSE IF ~newRepo.Mirror THEN ErrRepoMirrorOnly
    ELSE ""

\* the checks at the head of Create
createErr(newRepo) ==
    IF ~newRepo.Mirror THEN ErrRepoMirrorOnly
    ELSE IF newRepo.HTTPCloneURL = "" /\ newRepo.SSHCloneURL = "" THEN ErrRepoNeedsCloneURL
    ELSE ""

Create(newRepo, dbOK) ==
    LET defaulted == IF newRepo.DefaultBranch = ""
                     THEN [newRepo EXCEPT !.DefaultBranch = "master"]
                     ELSE newRepo
        r == fromRepo(dbRepo, defaulted)
        duplicate == \E x \in repo : CitextEq(x.URI, r.URI)
    IN  /\ op = ""
        /\ op' = "Create"
        /\ arg0' = newRepo
        /\ sqlArgs' = <<>>
        /\ IF createErr(newRepo) /= ""
           THEN /\ err' = createErr(newRepo)
                /\ res' = <<>>
                /\ arg' = newRepo
                /\ UNCHANGED <<repo, created, calls>>
           ELSE IF ~dbOK \/ duplicate
           THEN /\ err' = ExecutionFailure
                /\ res' = <<>>
                /\ arg' = defaulted
                /\ UNCHANGED <<repo, created, calls>>
           ELSE /\ Cardinality(repo) < MaxRepos
                /\ repo' = repo \cup {r}
                /\ created' = created \cup {newRepo}
                /\ err' = ""
                /\ res' = <<toRepo(r)>>
                /\ arg' = defaulted
                /\ UNCHANGED calls

\* the statements of Update with the description stored as it was given
UpdateStmtsNoTrim(u) ==
    (IF u.Description /= ""
     THEN <<[col |-> "Description", val |-> u.Description]>> ELSE <<>>)
    \o (IF u.Language /= ""
        THEN <<[col |-> "Language", val |-> TrimSpace(u.Language)]>> ELSE <<>>)
    \o (IF u.UpdatedAt /= <<>>
        THEN <<[col |-> "UpdatedAt", val |-> u.UpdatedAt]>> ELSE <<>>)
    \o (IF u.PushedAt /= <<>>
        THEN <<[col |-> "PushedAt", val |-> u.PushedAt]>> ELSE <<>>)

\* the statements of Update with updated_at written on every change of the
\* description
UpdateStmtsTouch(u) ==
    (IF u.Description /= ""
     THEN <<[col |-> "Description", val |-> TrimSpace(u.Description)],
            [col |-> "UpdatedAt", val |-> <<1>>]>> ELSE <<>>)
    \o (IF u.Language /= ""
        THEN <<[col |-> "Language", val |-> TrimSpace(u.Language)]>> ELSE <<>>)
    \o (IF u.UpdatedAt /= <<>>
        THEN <<[col |-> "UpdatedAt", val |-> u.UpdatedAt]>> ELSE <<>>)
    \o (IF u.PushedAt /= <<>>
        THEN <<[col |-> "PushedAt", val |-> u.PushedAt]>> ELSE <<>>)

\* the statements of Update, in the order it issues them
UpdateStmts(u) ==
    (IF u.Description /= ""
     THEN <<[col |-> "Description", val |-> TrimSpace(u.Description)]>> ELSE <<>>)
    \o (IF u.Language /= ""
        THEN <<[col |-> "Language", val |-> TrimSpace(u.Language)]>> ELSE <<>>)
    \o (IF u.UpdatedAt /= <<>>
        THEN <<[col |-> "UpdatedAt", val |-> u.UpdatedAt]>> ELSE <<>>)
    \o (IF u.PushedAt /= <<>>
        THEN <<[col |-> "PushedAt", val |-> u.PushedAt]>> ELSE <<>>)

\* UPDATE repo SET col=$1 WHERE uri=$2
ExecUpdate(table, stmt, uri) ==
    {IF CitextEq(r.URI, uri) THEN [r EXCEPT ![stmt.col] = stmt.val] ELSE r :
        r \in table}

RECURSIVE ExecUpdates(_, _, _)
ExecUpdates(table, stmts, uri) ==
    IF stmts = <<>> THEN table
    ELSE ExecUpdates(ExecUpdate(table, stmts[1], uri), Tail(stmts), uri)

\* failAt: which of the statements issued fails in the database, 0 for none
Update(u, failAt) ==
    LET stmts == UpdateStmts(u)
        executed == IF failAt = 0 THEN stmts ELSE SubSeq(stmts, 1, failAt - 1)
    IN  /\ op = ""
        /\ failAt \in 0..Len(stmts)
        /\ op' = "Update"
        /\ arg0' = u
        /\ arg' = u
        /\ sqlArgs' = <<>>
        /\ res' = <<>>
        /\ repo' = ExecUpdates(repo, executed, u.Repo.URI)
        /\ err' = IF failAt = 0 THEN "" ELSE ExecutionFailure
        /\ created' = {c \in created : ~CitextEq(c.URI, u.Repo.URI)}
        /\ UNCHANGED calls

Delete(uri, dbOK) ==
    /\ op = ""
    /\ op' = "Delete"
    /\ arg0' = uri
    /\ arg' = uri
    /\ sqlArgs' = <<>>
    /\ res' = <<>>
    /\ repo' = IF dbOK THEN {r \in repo : ~CitextEq(r.URI, uri)} ELSE repo
    /\ err' = IF dbOK THEN "" ELSE ExecutionFailure
    /\ created' = {c \in created : ~CitextEq(c.URI, uri)}
    /\ UNCHANGED calls

List(opt, dbOK) ==
    LET q == listSQL(opt)
        limit == PerPageOrDefault(q.opt)
        offset == Offset(q.opt)
    IN  /\ op = ""
        /\ op' = "List"
        /\ arg0' = opt
        /\ arg' = q.opt
        /\ IF q.err /= ""
           THEN /\ res' = <<>>
                /\ err' = listErr(q.err)
                /\ sqlArgs' = <<>>
           ELSE IF ~dbOK
           THEN /\ res' = <<>>
                /\ err' = ExecutionFailure
                /\ sqlArgs' = q.args \o <<limit, offset>>
           ELSE /\ \E rows \in Select(repo, q.where, q.orderBy, q.args, limit, offset) :
                      res' = toRepos(rows)
                /\ err' = ""
                /\ sqlArgs' = q.args \o <<limit, offset>>
        /\ UNCHANGED <<repo, created, calls>>

\* the call returns to its caller: the store keeps nothing of it
Return ==
    /\ op /= ""
    /\ op' = ""
    /\ arg0' = <<>>
    /\ arg' = <<>>
    /\ res' = <<>>
    /\ err' = ""
    /\ sqlArgs' = <<>>
    /\ UNCHANGED <<repo, created, calls>>

\* the calls of the operations; a call starts when none is in progress
CreateCall == op = "" /\ \E newRepo \in NewRepos, dbOK \in BOOLEAN : Create(newRepo, dbOK)
GetCall == op = "" /\ \E uri \in RepoURIs, dbOK \in BOOLEAN : Get(uri, dbOK)
UpdateCall == op = "" /\ \E u \in RepoUpdates, failAt \in 0..4 : Update(u, failAt)
DeleteCall == op = "" /\ \E uri \in RepoURIs, dbOK \in BOOLEAN : Delete(uri, dbOK)
BasicListCall == op = "" /\ \E opt \in BasicListOptions, dbOK \in BOOLEAN : List(opt, dbOK)
ListCall == op = "" /\ \E opt \in ListOptions, dbOK \in BOOLEAN : List(opt, dbOK)

\* every operation of the store, List with a few options
Next == CreateCall \/ GetCall \/ UpdateCall \/ DeleteCall \/ BasicListCall \/ Return

Spec == Init /\ [][Next]_vars

\* Create and List, List with every combination of options
NextList == CreateCall \/ ListCall \/ Return

SpecList == Init /\ [][NextList]_vars

(***************************************************************************)
(* Update statement by statement.  Update runs its statements one Exec at  *)
(* a time on the database handle, outside any transaction, so statements   *)
(* of other callers may run between two of them.                           *)
(***************************************************************************)
\* the updates the concurrent callers pass: every field, two fields that are
\* not neighbours, no field
ConcurrentUpdates ==
    {u \in RepoUpdates :
        \/ /\ u.Description = "  New widgets\t" /\ u.Language /= ""
           /\ u.UpdatedAt /= <<>> /\ u.PushedAt /= <<>>
        \/ /\ u.Description = " " /\ u.Language = ""
           /\ u.UpdatedAt = <<>> /\ u.PushedAt /= <<>>
        \/ /\ u.Description = "" /\ u.Language = ""
           /\ u.UpdatedAt = <<>> /\ u.PushedAt = <<>>}

\* the position of a call that has issued the first n of its statements
\* without a failure: it returns nil after the last one
pcAfter(u, n) == IF n = Len(UpdateStmts(u)) THEN "returned" ELSE "running"

\* caller c enters Update and comes to its first statement, or to the
\* return if the update supplies nothing
UpdateEnter(c, u) ==
    /\ op = ""
    /\ calls[c].pc = "idle"
    /\ calls' = [calls EXCEPT ![c] = [pc |-> pcAfter(u, 0), u |-> u,
                                      issued |-> <<>>, err |-> ""]]
    /\ created' = {x \in created : ~CitextEq(x.URI, u.Repo.URI)}
    /\ UNCHANGED <<repo, op, arg0, arg, res, err, sqlArgs>>

\* Update going on to its next statement after a statement has failed
UpdateExecContinue(c, dbOK) ==
    LET call == calls[c]
        stmts == UpdateStmts(call.u)
        i == Len(call.issued) + 1
    IN  /\ op = ""
        /\ call.pc = "running"
        /\ IF dbOK
           THEN /\ repo' = ExecUpdate(repo, stmts[i], call.u.Repo.URI)
                /\ calls' = [calls EXCEPT ![c].issued = Append(@, stmts[i]),
                                          ![c].pc = pcAfter(call.u, i)]
           ELSE /\ repo' = repo
                /\ calls' = [calls EXCEPT ![c].issued = Append(@, stmts[i]),
                                          ![c].pc = pcAfter(call.u, i),
                                          ![c].err = ExecutionFailure]
        /\ UNCHANGED <<op, arg0, arg, res, err, sqlArgs, created>>

\* caller c runs the next statement of its Update: the statement either
\* takes effect and Update goes on to the next one, or to return nil after
\* the last, or it fails without effect and Update returns its error
UpdateExec(c, dbOK) ==
    LET call == calls[c]
        stmts == UpdateStmts(call.u)
        i == Len(call.issued) + 1
    IN  /\ op = ""
        /\ call.pc = "running"
        /\ IF dbOK
           THEN /\ repo' = ExecUpdate(repo, stmts[i], call.u.Repo.URI)
                /\ calls' = [calls EXCEPT ![c].issued = Append(@, stmts[i]),
                                          ![c].pc = pcAfter(call.u, i)]
           ELSE /\ repo' = repo
                /\ calls' = [calls EXCEPT ![c].issued = Append(@, stmts[i]),
                                          ![c].pc = "returned",
                                          ![c].err = ExecutionFailure]
        /\ UNCHANGED <<op, arg0, arg, res, err, sqlArgs, created>>

\* caller c has its result: the store keeps nothing of the call
UpdateLeave(c) ==
    /\ op = ""
    /\ calls[c].pc = "returned"
    /\ calls' = [calls EXCEPT ![c] = NoCall]
    /\ UNCHANGED <<repo, op, arg0, arg, res, err, sqlArgs, created>>

\* the record the concurrent updates are about is created
CreateUpdatedCall ==
    op = "" /\ \E dbOK \in BOOLEAN : Create(RepoWidgetsExtra, dbOK)

UpdateEnterCall ==
    op = "" /\ \E c \in Callers, u \in ConcurrentUpdates : UpdateEnter(c, u)

UpdateExecCall ==
    op = "" /\ \E c \in Callers, dbOK \in BOOLEAN : UpdateExec(c, dbOK)

UpdateLeaveCall == op = "" /\ \E c \in Callers : UpdateLeave(c)

\* Create and the concurrent callers of Update
NextUpdate ==
    \/ CreateUpdatedCall
    \/ Return
    \/ UpdateEnterCall
    \/ UpdateExecCall
    \/ UpdateLeaveCall

SpecUpdate == Init /\ [][NextUpdate]_vars

(***************************************************************************)
(* The properties of the store.                                            *)
(***************************************************************************)
\* List ran the statement it built
Listed == op = "List" /\ err = "" /\ sqlArgs /= <<>>

\* the identifiers of the records List returned, in order
ResURIs == [i \in 1..Len(res) |-> res[i].URI]

\* the probe listSQL makes of a query
Probe(query) == ToLower(Join(Fields(query), "/"))

\* C1: whatever the options and the rows of the table, no record that List
\* returns is blocked.
C1_ListExcludesBlocked ==
    op = "List" => \A i \in 1..Len(res) : ~res[i].Blocked

\* a query whose OR-group matches a blocked row by its name, next to a row
\* that is returned
C1_Witness ==
    /\ Listed
    /\ arg0.Query = "Bar"
    /\ Len(res) = 1
    /\ \E r \in repo : r.Blocked /\ Like(ToLower(r.Name), "bar%")

\* C2 as stated: List with a non-empty owner returns an empty result and no
\* error whatever the other options are.
C2_OwnerAlwaysEmpty ==
    op = "List" /\ arg0.Owner /= "" => res = <<>> /\ err = ""

\* C2 amended: List with a non-empty owner returns an empty result and no
\* error when the visibility type is one of "", all, private, public,
\* whatever the sort key and direction; with any other type it fails with
\* InvalidArgument.
C2_OwnerEmptyUnlessBadType ==
    op = "List" /\ arg0.Owner /= "" =>
        IF arg0.Type \in {"", "all", "private", "public"}
        THEN res = <<>> /\ err = ""
        ELSE res = <<>> /\ err = InvalidArgument

\* an owner together with an unrecognised sort key
C2_Witness ==
    /\ op = "List"
    /\ arg0.Owner /= ""
    /\ arg0.Sort = "stars"
    /\ err = ""
    /\ repo /= {}

\* C3: List with query "foo bar" and no other option returns the record
\* "example.com/foo/bar" when the table holds it unblocked, and never
\* returns "example.com/foobar".
C3_QueryFooBar ==
    Listed /\ arg0 = [RepoListOptions EXCEPT !.Query = "foo bar"] =>
        /\ \A r \in repo : r.URI = "example.com/foo/bar" /\ ~r.Blocked =>
               \E i \in 1..Len(res) : res[i].URI = r.URI
        /\ \A i \in 1..Len(res) : res[i].URI /= "example.com/foobar"

SortKeys == {"path", "uri", "name", "created", "updated", "pushed"}
Directions == {"asc", "desc"}

\* the sort key or the direction of the options is not one List knows
BadSort(opt) ==
    opt.Sort \notin SortKeys \cup {""} \/ opt.Direction \notin Directions \cup {""}

\* C4 as stated: List fails with InvalidArgument whenever the sort key or
\* the direction is outside its list, whatever the other options are.
C4_BadSortAlwaysInvalid ==
    op = "List" /\ BadSort(arg0) => err = InvalidArgument

\* C4 amended: with an empty owner, List fails with InvalidArgument whenever
\* the sort key or the direction is outside its list; with a non-empty owner
\* and a recognised visibility type it returns an empty result and no error
\* instead.  A listed or empty sort key and direction are accepted.
C4_BadSortInvalidUnlessOwner ==
    op = "List" =>
        /\ BadSort(arg0) /\ arg0.Owner = "" => err = InvalidArgument
        /\ BadSort(arg0) /\ arg0.Owner /= ""
              /\ arg0.Type \in {"", "all", "private", "public"} =>
                    err = "" /\ res = <<>>
        /\ ~BadSort(arg0) /\ arg0.Type \in {"", "all", "private", "public"} =>
              err /= InvalidArgument

\* an unrecognised sort key rejected although a query is given
C4_Witness ==
    /\ op = "List"
    /\ arg0.Sort = "stars"
    /\ arg0.Query /= ""
    /\ arg0.Owner = ""
    /\ err = InvalidArgument

\* every row of the table is a mirror with a clone URL
C5_Rows == \A r \in repo : r.Mirror /\ (r.HTTPCloneURL /= "" \/ r.SSHCloneURL /= "")

\* what Create answers to a record that is not a mirror or has no clone URL
C5_Errors ==
    op = "Create" =>
        /\ ~arg0.Mirror => err = ErrRepoMirrorOnly
        /\ arg0.Mirror /\ arg0.HTTPCloneURL = "" /\ arg0.SSHCloneURL = "" =>
              err = ErrRepoNeedsCloneURL

\* a Create that fails with MirrorOnly or NeedsCloneURL leaves the table alone
C5_Step ==
    op' = "Create" /\ err' \in {ErrRepoMirrorOnly, ErrRepoNeedsCloneURL} =>
        repo' = repo

\* C5: every row of the table is a mirror with at least one clone URL; Create
\* of a record that is not a mirror fails with MirrorOnly, also when it has
\* no clone URL; Create of a mirror without clone URL fails with
\* NeedsCloneURL; neither changes the table.
C5_CreateMirrorOnly == [](C5_Rows /\ C5_Errors) /\ [][C5_Step]_vars

\* Create of a record that is neither a mirror nor has a clone URL, on a
\* table that holds a row
C5_Witness ==
    /\ op = "Create"
    /\ ~arg0.Mirror
    /\ arg0.HTTPCloneURL = "" /\ arg0.SSHCloneURL = ""
    /\ err = ErrRepoMirrorOnly
    /\ repo /= {}

\* the fields of a record other than defaultBranch and createdAt
CopiedFields == DOMAIN Repo \ {"DefaultBranch", "CreatedAt"}

\* C6: Get of the identifier of a record that Create accepted, with no
\* Update or Delete of it in between, returns the record given to Create,
\* but for createdAt and for defaultBranch, which is "master" when the
\* record had none.
C6_GetAfterCreate ==
    op = "Get" /\ err = "" =>
        \A c \in created : CitextEq(c.URI, arg0) =>
            /\ \A f \in CopiedFields : res[1][f] = c[f]
            /\ res[1].DefaultBranch =
                  IF c.DefaultBranch = "" THEN "master" ELSE c.DefaultBranch

\* Get, by an identifier in another case, of a record created with its
\* updatedAt and its default branch set
C6_Witness ==
    /\ op = "Get"
    /\ err = ""
    /\ \E c \in created :
          /\ CitextEq(c.URI, arg0)
          /\ c.URI /= arg0
          /\ c.UpdatedAt /= <<>>
          /\ c.DefaultBranch /= ""

\* the update supplies the description and nothing else
OnlyDescription(u) ==
    u.Description /= "" /\ u.Language = "" /\ u.UpdatedAt = <<>> /\ u.PushedAt = <<>>

\* the update supplies nothing
NothingSupplied(u) ==
    u.Description = "" /\ u.Language = "" /\ u.UpdatedAt = <<>> /\ u.PushedAt = <<>>

\* C7: an Update that supplies only a description leaves every record as
\* Get returned it before, except that the record with the given identifier
\* has the trimmed description once the statement has succeeded; an Update
\* that supplies nothing leaves the table as it was.
C7_UpdateDescriptionOnly ==
    [][(op' = "Update" /\ OnlyDescription(arg0') =>
            /\ Cardinality(repo') = Cardinality(repo)
            /\ \A r \in repo :
                  IF CitextEq(r.URI, arg0'.Repo.URI) /\ err' = ""
                  THEN [toRepo(r) EXCEPT !.Description = TrimSpace(arg0'.Description)]
                           \in {toRepo(x) : x \in repo'}
                  ELSE r \in repo')
       /\ (op' = "Update" /\ NothingSupplied(arg0') => repo' = repo)]_vars

\* an Update of the description alone, of a record that has a language and
\* an updatedAt
C7_Witness ==
    /\ op = "Update"
    /\ OnlyDescription(arg0)
    /\ arg0.Description = "  New widgets\t"
    /\ err = ""
    /\ \E r \in repo : /\ CitextEq(r.URI, arg0.Repo.URI)
                       /\ r.Description = "New widgets"
                       /\ r.Language = "Go"
                       /\ r.UpdatedAt /= <<>>
    /\ Cardinality(repo) = 2

\* field f of row r2 of the new table was written by an Update that supplied it
SetByUpdate(r2, f) ==
    op' = "Update" /\ arg0'[f] /= <<>> /\ CitextEq(r2.URI, arg0'.Repo.URI)

\* field f of row r2 of the new table was given to the Create that inserted it
SetByCreate(r2, f) ==
    op' = "Create" /\ err' = "" /\ arg0'[f] /= <<>> /\ r2.URI = arg0'.URI

\* field f of row r2 of the new table was there before the step
KeptFrom(r2, f) == \E r \in repo : r.URI = r2.URI /\ r[f] = r2[f]

\* C8 as stated: updatedAt and pushedAt of a row become present only by an
\* Update that supplies the field for its identifier.
C8_PresentOnlyByUpdate ==
    [][\A r2 \in repo' : \A f \in {"UpdatedAt", "PushedAt"} :
          r2[f] /= <<>> => KeptFrom(r2, f) \/ SetByUpdate(r2, f)]_vars

\* C8 amended: updatedAt and pushedAt of a row are absent unless the record
\* given to Create had the field set or an Update supplied the field for its
\* identifier; no Get, List or Delete makes them present.
C8_PresentOnlyByCreateOrUpdate ==
    [][\A r2 \in repo' : \A f \in {"UpdatedAt", "PushedAt"} :
          r2[f] /= <<>> =>
              KeptFrom(r2, f) \/ SetByUpdate(r2, f) \/ SetByCreate(r2, f)]_vars

\* a record created without pushedAt whose pushedAt an Update has set, next
\* to a record that has none
C8_Witness ==
    /\ op = "Update"
    /\ arg0.PushedAt /= <<>>
    /\ arg0.UpdatedAt = <<>>
    /\ \E r \in repo : /\ CitextEq(r.URI, arg0.Repo.URI)
                       /\ r.PushedAt = arg0.PushedAt
    /\ \E r \in repo : r.PushedAt = <<>> /\ r.UpdatedAt = <<>>

\* record x has the name that the tie-break of the query looks for
ExactName(x, query) == ToLower(x.Name) = Base(Probe(query))

\* C9: with the unblocked records "acme/widgets" and "acme/widgets-extra" in
\* the table, List with query "widgets" and no other option returns both,
\* "acme/widgets" first; and for every query with a non-empty probe, every
\* sort key and direction, no returned record whose lowercased name is the
\* last path segment of the probe comes after one whose name is not.
C9_ExactNameFirst ==
    /\ Listed /\ arg0 = [RepoListOptions EXCEPT !.Query = "widgets"]
          /\ (\E r \in repo : r.URI = "acme/widgets" /\ ~r.Blocked)
          /\ (\E r \in repo : r.URI = "acme/widgets-extra" /\ ~r.Blocked) =>
              \E i, j \in 1..Len(res) :
                  /\ i < j
                  /\ res[i].URI = "acme/widgets"
                  /\ res[j].URI = "acme/widgets-extra"
    /\ Listed /\ Probe(arg0.Query) /= "" =>
          \A i, j \in 1..Len(res) :
              i < j => ~(ExactName(res[j], arg0.Query) /\ ~ExactName(res[i], arg0.Query))

\* the two records listed by query "widgets" in descending order of the
\* identifier: the exact name still comes first
C9_Witness ==
    /\ Listed
    /\ arg0.Query = "widgets"
    /\ arg0.Direction = "desc"
    /\ arg0.Sort \in {"", "uri"}
    /\ ResURIs = <<"acme/widgets", "acme/widgets-extra">>

\* C10 as stated: with a non-empty identifiers option, the values bound for
\* IN are the caller's elements, one each and unmodified, only rows with one
\* of these identifiers are returned, and the caller's options are unchanged.
C10_URIsAsGiven ==
    op = "List" /\ Len(arg0.URIs) > 0 =>
        /\ arg = arg0
        /\ sqlArgs /= <<>> => SubSeq(sqlArgs, 1, Len(arg0.URIs)) = arg0.URIs
        /\ \A i \in 1..Len(res) :
              \E k \in 1..Len(arg0.URIs) : CitextEq(res[i].URI, arg0.URIs[k])

\* the identifiers List binds for the identifiers the caller gave
BoundURIs(URIs) ==
    IF Len(URIs) = 1 /\ Contains(URIs[1], ",") THEN Split(URIs[1], ",") ELSE URIs

\* C10 amended: with a non-empty identifiers option, the values bound for IN
\* are the caller's elements, one each and unmodified, and the caller's
\* options are unchanged, unless the option is a single element that
\* contains a comma: that element is split at its commas, the pieces are
\* bound, and the caller's options hold the pieces after the call.  Only
\* rows whose identifier equals a bound value, compared as the column uri
\* compares, are returned.
C10_URIsSplitAtComma ==
    op = "List" /\ Len(arg0.URIs) > 0 =>
        /\ arg = [arg0 EXCEPT !.URIs = BoundURIs(arg0.URIs)]
        /\ sqlArgs /= <<>> =>
              SubSeq(sqlArgs, 1, Len(BoundURIs(arg0.URIs))) = BoundURIs(arg0.URIs)
        /\ \A i \in 1..Len(res) :
              \E k \in 1..Len(BoundURIs(arg0.URIs)) :
                  CitextEq(res[i].URI, BoundURIs(arg0.URIs)[k])

\* a single element with a comma that lists the two records it names
C10_Witness ==
    /\ Listed
    /\ arg0.URIs = <<"acme/widgets,example.com/foobar">>
    /\ ResURIs = <<"acme/widgets", "example.com/foobar">>

\* the fields of an update in the order Update looks at them
UpdateFields == <<"Description", "Language", "UpdatedAt", "PushedAt">>

\* the update supplies field f
IsSupplied(u, f) ==
    IF f \in {"Description", "Language"} THEN u[f] /= "" ELSE u[f] /= <<>>

RECURSIVE SuppliedFrom(_, _)
SuppliedFrom(u, i) ==
    IF i > Len(UpdateFields) THEN <<>>
    ELSE (IF IsSupplied(u, UpdateFields[i]) THEN <<UpdateFields[i]>> ELSE <<>>)
         \o SuppliedFrom(u, i + 1)

\* the fields the update supplies, in that order
Supplied(u) == SuppliedFrom(u, 1)

\* the columns of the statements a call has issued
IssuedCols(call) == [i \in 1..Len(call.issued) |-> call.issued[i].col]

\* the statements a call has issued are the first of its supplied fields, in
\* the fixed order, one statement a field
C11_Order ==
    \A c \in Callers :
        calls[c].pc /= "idle" =>
            /\ Len(calls[c].issued) <= Len(Supplied(calls[c].u))
            /\ IssuedCols(calls[c]) =
                   SubSeq(Supplied(calls[c].u), 1, Len(calls[c].issued))

\* a call that has an error has returned, and its failed statement is the
\* last it issued; a call with no error has returned if and only if it has
\* issued every statement
C11_Stops ==
    \A c \in Callers :
        /\ calls[c].err \in {"", ExecutionFailure}
        /\ calls[c].err /= "" =>
               calls[c].pc = "returned" /\ Len(calls[c].issued) >= 1
        /\ calls[c].pc /= "idle" /\ calls[c].err = "" =>
               (calls[c].pc = "returned" <=>
                    Len(calls[c].issued) = Len(Supplied(calls[c].u)))

\* caller c issues a statement in this step
IssuesStmt(c) ==
    /\ calls[c].pc = "running"
    /\ Len(calls'[c].issued) = Len(calls[c].issued) + 1

\* the column written in this step for the records with the identifier of
\* the update of caller c holds the new value, and nothing else has changed
WritesOneField(c) ==
    LET stmt == calls'[c].issued[Len(calls'[c].issued)]
        uri == calls[c].u.Repo.URI
    IN  /\ Cardinality(repo') = Cardinality(repo)
        /\ \A r \in repo : \E r2 \in repo' :
              \A f \in DOMAIN r :
                  r2[f] = IF f = stmt.col /\ ToLower(r.URI) = ToLower(uri)
                          THEN stmt.val ELSE r[f]

\* a step of the store seen from the calls of Update
C11_Step ==
    /\ \A c \in Callers :
          /\ IssuesStmt(c) /\ calls'[c].err = "" => WritesOneField(c)
          /\ IssuesStmt(c) /\ calls'[c].err /= "" =>
                calls'[c].pc = "returned" /\ repo' = repo
          /\ calls[c].pc = "returned" => calls'[c] \in {calls[c], NoCall}
          /\ calls[c].pc = "running" =>
                calls'[c].pc /= "idle" /\ calls'[c].u = calls[c].u
    /\ repo' /= repo =>
          \/ op' = "Create"
          \/ \E c \in Callers : IssuesStmt(c) /\ calls'[c].err = ""

\* C11: Update issues one statement for each supplied field in the order
\* description, language, updatedAt, pushedAt, and stops at the first
\* statement that fails, returning its error: the failing statement and the
\* return leave the table as the earlier statements made it (no rollback),
\* no statement follows the failing one, and every change of the table
\* between two statements of one caller is one statement of another caller
\* (or a Create) taking effect; C11_Witness is a state where a statement of
\* another Update of the same identifier took effect between two statements.
C11_UpdateStatementByStatement ==
    [](C11_Order /\ C11_Stops) /\ [][C11_Step]_vars

\* a caller has written its description and has its language still to write;
\* the description in the table is the one another caller wrote after it with
\* the first statement of an Update of the same identifier, whose second
\* statement failed: that description stays, the pushed time is not written
C11_Witness ==
    \E c1, c2 \in Callers :
        /\ c1 /= c2
        /\ calls[c1].pc = "running"
        /\ IssuedCols(calls[c1]) = <<"Description">>
        /\ calls[c1].issued[1].val = "New widgets"
        /\ IsSupplied(calls[c1].u, "Language")
        /\ calls[c2].pc = "returned"
        /\ calls[c2].err = ExecutionFailure
        /\ calls[c2].u.Repo.URI = calls[c1].u.Repo.URI
        /\ IssuedCols(calls[c2]) = <<"Description", "PushedAt">>
        /\ \E r \in repo :
              /\ CitextEq(r.URI, calls[c1].u.Repo.URI)
              /\ r.Description = ""
              /\ r.PushedAt = <<>>

====
